---- MODULE Spec2Model ----
(***************************************************************************)
(* Model of the quick-note plugin (src/main.ts).                           *)
(*                                                                         *)
(* Strings are sequences of one-character strings, so that formatting,     *)
(* trimming, path normalisation and the two regular expressions of the     *)
(* plugin are computed character by character, as the code computes them.  *)
(* The vault is a set of folder paths and a map from file paths to file    *)
(* contents.  The async callback of createQuickNote is cut where it awaits *)
(* vault I/O: Submit runs it up to createFolder or vault.read, TaskContent *)
(* resumes it after createFolder, TaskCreate after vault.read.  The await  *)
(* of openFile and the Notice that follows it are taken with the step that *)
(* calls openFile.                                                         *)
(*                                                                         *)
(* Spec        the plugin, its settings and the clock, in a vault that     *)
(*             holds template files                                        *)
(* SpecContent the plugin with every template, base folder and clock fixed *)
(* SpecTitles  the title modal over the vaults a user may hold             *)
(***************************************************************************)
EXTENDS Integers, Sequences, FiniteSets, TLC

(***************************************************************************)
(* Bounds of the model.                                                    *)
(***************************************************************************)
\* Callback invocations (non-empty submissions) in one behaviour.
MaxSubmits == 2

(***************************************************************************)
(* Characters and strings.                                                 *)
(***************************************************************************)
Digits == <<"0", "1", "2", "3", "4", "5", "6", "7", "8", "9">>

Upper == <<"A", "B", "C", "D">>

Lower == <<"a", "b", "c", "d">>

\* \d of a JavaScript regular expression: ASCII digits only
IsDigit(c) == \E i \in 1..Len(Digits) : Digits[i] = c

\* \s of a JavaScript regular expression, and the set String.prototype.trim strips
IsSpace(c) == c \in {" ", "\t", "\n", "\r"}

\* line terminators: what "." does not match and what ^ (with /m) follows
IsLineTerminator(c) == c \in {"\n", "\r"}

AllSpace(s) == \A i \in 1..Len(s) : IsSpace(s[i])

\* String.prototype.startsWith
startsWith(s, p) == Len(p) <= Len(s) /\ SubSeq(s, 1, Len(p)) = p

\* String.prototype.includes
includes(s, sub) ==
  \E i \in 0..(Len(s) - Len(sub)) : SubSeq(s, i + 1, i + Len(sub)) = sub

\* String.prototype.trimStart
trimStart(s) ==
  IF AllSpace(s) THEN <<>>
  ELSE LET first == CHOOSE i \in 1..Len(s) :
                      ~IsSpace(s[i]) /\ \A j \in 1..(i - 1) : IsSpace(s[j])
       IN  SubSeq(s, first, Len(s))

\* String.prototype.trimEnd
trimEnd(s) ==
  IF AllSpace(s) THEN <<>>
  ELSE LET last == CHOOSE i \in 1..Len(s) :
                     ~IsSpace(s[i]) /\ \A j \in (i + 1)..Len(s) : IsSpace(s[j])
       IN  SubSeq(s, 1, last)

\* String.prototype.trim
trim(s) == trimEnd(trimStart(s))

toLowerChar(c) ==
  IF \E i \in 1..Len(Upper) : Upper[i] = c
  THEN Lower[CHOOSE i \in 1..Len(Upper) : Upper[i] = c]
  ELSE c

\* String.prototype.toLowerCase
toLowerCase(s) == [i \in 1..Len(s) |-> toLowerChar(s[i])]

\* Number.prototype.toString for a natural number
RECURSIVE toString(_)
toString(n) ==
  IF n < 10 THEN <<Digits[n + 1]>>
  ELSE toString(n \div 10) \o <<Digits[(n % 10) + 1]>>

\* String.prototype.padStart(width, '0')
RECURSIVE padStart(_, _)
padStart(s, width) == IF Len(s) >= width THEN s ELSE padStart(<<"0">> \o s, width)

\* lexicographic order on strings of the model's date characters: s < t
RECURSIVE StrLess(_, _)
StrLess(s, t) ==
  IF t = <<>> THEN FALSE
  ELSE IF s = <<>> THEN TRUE
  ELSE IF s[1] = t[1] THEN StrLess(Tail(s), Tail(t))
  ELSE LET rank(c) == IF IsDigit(c)
                      THEN CHOOSE i \in 1..Len(Digits) : Digits[i] = c
                      ELSE 0
       IN  rank(s[1]) < rank(t[1])

RECURSIVE Join(_, _)
Join(parts, sep) ==
  IF parts = <<>> THEN <<>>
  ELSE IF Len(parts) = 1 THEN parts[1]
  ELSE parts[1] \o sep \o Join(Tail(parts), sep)

Range(s) == {s[i] : i \in 1..Len(s)}

(***************************************************************************)
(* Paths and the vault's view of a file (host API as the plugin uses it).  *)
(***************************************************************************)
IsSlash(c) == c \in {"/", "\\"}

\* runs of "/" and "\" become one "/"
RECURSIVE collapseSlashes(_)
collapseSlashes(s) ==
  IF s = <<>> THEN <<>>
  ELSE IF IsSlash(s[1])
       THEN IF Len(s) >= 2 /\ IsSlash(s[2])
            THEN collapseSlashes(Tail(s))
            ELSE <<"/">> \o collapseSlashes(Tail(s))
       ELSE <<s[1]>> \o collapseSlashes(Tail(s))

\* obsidian's normalizePath: separators collapsed, no leading or trailing
\* separator, and the vault root for what is left empty
normalizePath(path) ==
  LET c == collapseSlashes(path)
      a == IF c # <<>> /\ c[1] = "/" THEN Tail(c) ELSE c
      b == IF a # <<>> /\ a[Len(a)] = "/" THEN SubSeq(a, 1, Len(a) - 1) ELSE a
  IN  IF b = <<>> THEN <<"/">> ELSE b

\* index of the last occurrence of character c in s, 0 when there is none
LastIndexOf(s, c) ==
  IF \E i \in 1..Len(s) : s[i] = c
  THEN CHOOSE i \in 1..Len(s) : s[i] = c /\ \A j \in (i + 1)..Len(s) : s[j] # c
  ELSE 0

\* TAbstractFile.name: the last segment of the path
FileName(path) == SubSeq(path, LastIndexOf(path, "/") + 1, Len(path))

\* TAbstractFile.parent: the folder holding the path, the root for a top-level path
ParentPath(path) ==
  IF LastIndexOf(path, "/") = 0 THEN <<"/">>
  ELSE SubSeq(path, 1, LastIndexOf(path, "/") - 1)

\* TFile.extension: what follows the last dot of the name
Extension(path) ==
  LET name == FileName(path)
      dot  == LastIndexOf(name, ".")
  IN  IF dot = 0 THEN <<>> ELSE SubSeq(name, dot + 1, Len(name))

\* TFile.basename: the name without its extension
Basename(path) ==
  LET name == FileName(path)
      dot  == LastIndexOf(name, ".")
  IN  IF dot = 0 THEN name ELSE SubSeq(name, 1, dot - 1)

(***************************************************************************)
(* formatDate and the date pattern of getPastNoteTitles.                   *)
(***************************************************************************)
\* formatDate(date): a clock reading is [year, month, date] as getFullYear,
\* getMonth (0-based) and getDate return them
formatDate(date) ==
  toString(date.year) \o <<"-">> \o padStart(toString(date.month + 1), 2)
    \o <<"-">> \o padStart(toString(date.date), 2)

\* ^(\d{4}-\d{2}-\d{2}) : the first ten characters of the pattern
HasDatePrefix(s) ==
  /\ Len(s) >= 10
  /\ \A i \in {1, 2, 3, 4, 6, 7, 9, 10} : IsDigit(s[i])
  /\ s[5] = "-"
  /\ s[8] = "-"

\* the lengths \s+ may take for (.+)$ to match what is left
SpaceRuns(s) ==
  {j \in 1..(Len(s) - 11) :
     /\ \A i \in 11..(10 + j) : IsSpace(s[i])
     /\ \A i \in (11 + j)..Len(s) : ~IsLineTerminator(s[i])}

\* fileName.match(/^(\d{4}-\d{2}-\d{2})\s+(.+)$/): <<date, title>>, or <<>> for
\* null.  \s+ is greedy: it keeps the longest run that leaves (.+) a character.
matchDatePattern(fileName) ==
  IF ~HasDatePrefix(fileName) \/ SpaceRuns(fileName) = {} THEN <<>>
  ELSE LET j == CHOOSE k \in SpaceRuns(fileName) :
                  \A m \in SpaceRuns(fileName) : m <= k
       IN  <<SubSeq(fileName, 1, 10), SubSeq(fileName, 11 + j, Len(fileName))>>

(***************************************************************************)
(* addFrontmatter.                                                         *)
(***************************************************************************)
Fence == <<"-", "-", "-">>

NL == <<"\n">>

TitleKey == <<"t", "i", "t", "l", "e", ":">>

DateKey == <<"d", "a", "t", "e", ":">>

\* /^key/m.test(text): the key at the start of some line
testLineStart(text, key) ==
  \E p \in 1..Len(text) :
    /\ p = 1 \/ IsLineTerminator(text[p - 1])
    /\ startsWith(SubSeq(text, p, Len(text)), key)

\* the ends the lazy group of /^---\n([\s\S]*?)\n---\n([\s\S]*)$/ may have
FenceEnds(content) ==
  {e \in 4..(Len(content) - 5) : SubSeq(content, e + 1, e + 5) = NL \o Fence \o NL}

\* content.match(/^---\n([\s\S]*?)\n---\n([\s\S]*)$/): <<frontmatter, body>>,
\* or <<>> for null.  The group is lazy: it ends at the first "\n---\n".
matchFrontmatter(content) ==
  IF ~startsWith(content, Fence \o NL) \/ FenceEnds(content) = {} THEN <<>>
  ELSE LET e == CHOOSE k \in FenceEnds(content) :
                  \A m \in FenceEnds(content) : k <= m
       IN  <<SubSeq(content, 5, e), SubSeq(content, e + 6, Len(content))>>

\* the block written when the regular expression did not match
newFrontmatter(title, date) ==
  Fence \o NL \o TitleKey \o <<" ">> \o title \o NL
        \o DateKey \o <<" ">> \o date \o NL \o Fence \o NL \o NL

\* the fields added in front of an existing block
mergeFrontmatter(existing, title, date) ==
  LET withDate == IF ~testLineStart(existing, DateKey)
                  THEN DateKey \o <<" ">> \o date \o NL \o existing
                  ELSE existing
  IN  IF ~testLineStart(existing, TitleKey)
      THEN TitleKey \o <<" ">> \o title \o NL \o withDate
      ELSE withDate

addFrontmatter(content, title, date) ==
  LET hasFrontmatter == startsWith(trimStart(content), Fence)
      match == matchFrontmatter(content)
  IN  IF hasFrontmatter /\ match # <<>>
      THEN Fence \o NL \o mergeFrontmatter(match[1], title, date)
             \o NL \o Fence \o NL \o match[2]
      ELSE newFrontmatter(title, date) \o content

(***************************************************************************)
(* TitleSuggest.getSuggestions.                                            *)
(***************************************************************************)
\* a filter that forgets to lower-case
suggestionMatches_CaseSensitive(title, query) == includes(title, query)

\* the filter's test: the lower-cased title includes the lower-cased query
suggestionMatches(title, query) == includes(toLowerCase(title), toLowerCase(query))

getSuggestions(titles, query) ==
  IF query = <<>> \/ Len(trim(query)) = 0 THEN <<>>
  ELSE SelectSeq(titles, LAMBDA title : suggestionMatches(title, query))

(***************************************************************************)
(* State.                                                                  *)
(***************************************************************************)
VARIABLES
  settings,     \* QuickNotePlugin.settings: [baseFolder, templatePath]
  folders,      \* the vault's folders (paths)
  files,        \* the vault's files: path -> content
  clock,        \* what new Date() returns now
  modalOpen,    \* a TitleInputModal is open
  pastTitles,   \* TitleInputModal.pastTitles / TitleSuggest.pastTitles
  titleInput,   \* TitleInputModal.titleInput.value
  suggestions,  \* what TitleSuggest.getSuggestions returned for the last input
  tasks,        \* onSubmit callbacks suspended at an await on vault I/O
  calls,        \* the titles onSubmit was invoked with, in order
  notice,       \* the last Notice shown: <<kind>> or <<kind, title>>
  opened,       \* the path last passed to openFile
  created       \* one record per successful vault.create of the plugin

vars == <<settings, folders, files, clock, modalOpen, pastTitles, titleInput,
          suggestions, tasks, calls, notice, opened, created>>

(***************************************************************************)
(* Literals of the program and the inputs of the model.                    *)
(***************************************************************************)
\* DEFAULT_SETTINGS.baseFolder, and the fallback of the settings tab
Notes == <<"N", "o", "t", "e", "s">>

MdSuffix == <<".", "m", "d">>

Root == <<"/">>

DEFAULT_SETTINGS == [baseFolder |-> Notes, templatePath |-> <<>>]

\* clock readings, in the order the clock passes them
Readings ==
  << [year |-> 2024, month |-> 11, date |-> 31],
     [year |-> 2025, month |-> 0, date |-> 1] >>

\* template files of the vault: path -> content
TplMerge == <<"T", ".", "m", "d">>

TplPlain == <<"P", ".", "m", "d">>

TplAtEnd == <<"E", ".", "m", "d">>

TplEmptyBlock == <<"O", ".", "m", "d">>

TplMissing == <<"X", ".", "m", "d">>

TemplateFiles ==
  (TplMerge :> (Fence \o NL \o <<"k", ":", "v">> \o NL \o Fence \o NL \o <<"b">>))
  @@ (TplPlain :> <<"b">>)
  @@ (TplAtEnd :> (Fence \o NL \o <<"k", ":", "v">> \o NL \o Fence))
  @@ (TplEmptyBlock :>
        (Fence \o NL \o Fence \o NL \o TitleKey \o <<"q">> \o NL \o Fence \o NL \o <<"b">>))

\* what the user types into the template setting
TemplateInputs == {<<>>, TplMerge}

\* the same, with every template file of the vault and a file that is missing
AllTemplateInputs == {<<>>, TplMerge, TplPlain, TplAtEnd, TplEmptyBlock, TplMissing}

\* what the user types into the title input to look for past titles
QueryInputs == {<<" ">>, <<"A">>, <<"b">>, <<"a", "B">>, <<"z">>}

\* notes a vault may hold before the plugin looks for past titles
Day1 == formatDate(Readings[1])

Day2 == formatDate(Readings[2])

OtherBase == <<"M">>

UserNotes ==
  { Join(<<Notes, Day1 \o <<" ", "a">> \o MdSuffix>>, <<"/">>),
    Join(<<Notes, <<"2", "0", "2", "5">>, <<"0", "1">>,
           Day2 \o <<" ", "a">> \o MdSuffix>>, <<"/">>),
    Join(<<Notes, <<"2", "0", "2", "4">>, <<"1", "2">>,
           Day1 \o <<" ", "A", "b">> \o MdSuffix>>, <<"/">>),
    Join(<<Notes, Day2 \o <<" ", " ", "b">> \o MdSuffix>>, <<"/">>),
    Join(<<Notes, Day2 \o <<" ", " ">> \o MdSuffix>>, <<"/">>),
    Join(<<Notes, <<"2", "0", "2", "5">>, <<"0", "1">>,
           Day2 \o <<" ", "c", ".", "t", "x", "t">>>>, <<"/">>),
    Join(<<Notes, <<"2", "0", "2", "4">>, <<"1", "2">>,
           <<"r", "e", "a", "d", "m", "e">> \o MdSuffix>>, <<"/">>),
    Join(<<Notes, <<"2", "0", "2", "4">>, <<"1", "2">>,
           Day1 \o <<" ", "n", "\n", "z">> \o MdSuffix>>, <<"/">>),
    Join(<<OtherBase, Day1 \o <<" ", "z">> \o MdSuffix>>, <<"/">>) }

\* base folder settings the plugin may have been saved with
BaseFolders == {Notes, OtherBase \o <<"/">>, TplMerge}

\* what the user types into the base folder setting
BaseInputs == {<<>>, <<"M", "/">>, TplMerge}

\* what the user types into the title input
TitleInputs == {<<" ">>, <<" ", "a", " ">>}

(***************************************************************************)
(* The vault (host API as the plugin uses it).                             *)
(***************************************************************************)
\* vault.getAbstractFileByPath: a TFile, a TFolder or null
getAbstractFileByPath(path) ==
  IF path \in DOMAIN files THEN "TFile"
  ELSE IF path \in folders \/ path = Root THEN "TFolder"
  ELSE "null"

\* TFolder.children
Children(folder) == {p \in (DOMAIN files) \cup folders : ParentPath(p) = folder}

\* a path's proper ancestors below the root
RECURSIVE Ancestors(_)
Ancestors(path) ==
  IF ParentPath(path) = Root THEN {}
  ELSE {ParentPath(path)} \cup Ancestors(ParentPath(path))

\* vault.createFolder throws when the path, or a segment above it, is taken by
\* a file
createFolderThrows(w, path) ==
  \E p \in Ancestors(path) \cup {path} : p \in DOMAIN w.files

\* vault.create throws when the path is taken or its parent is not a folder
createThrows(w, path) ==
  \/ path \in DOMAIN w.files
  \/ path \in w.folders
  \/ ~(ParentPath(path) \in w.folders \/ ParentPath(path) = Root)

(***************************************************************************)
(* getPastNoteTitles.                                                      *)
(***************************************************************************)
\* the orders in which a for-of loop may meet the children of a folder
RECURSIVE Orders(_)
Orders(S) ==
  IF S = {} THEN {<<>>}
  ELSE UNION {{<<x>> \o o : o \in Orders(S \ {x})} : x \in S}

\* the files extractTitles meets, in order, for each order of each folder's
\* children: a subfolder is walked where the loop meets it
RECURSIVE Walks(_), WalkChildren(_)
Walks(folder) == UNION {WalkChildren(order) : order \in Orders(Children(folder))}

WalkChildren(order) ==
  IF order = <<>> THEN {<<>>}
  ELSE LET first == IF order[1] \in DOMAIN files
                    THEN {<<order[1]>>}
                    ELSE Walks(order[1])
       IN  {h \o t : h \in first, t \in WalkChildren(Tail(order))}

\* a walk that takes every file for a note
IsMarkdown_AnyFile(path) == TRUE

\* child instanceof TFile && child.extension === 'md'
IsMarkdown(path) == Extension(path) = <<"m", "d">>

\* Map.get: the date stored for the title, <<>> for undefined
mapGet(titleDates, title) ==
  IF \E i \in 1..Len(titleDates) : titleDates[i].title = title
  THEN titleDates[CHOOSE i \in 1..Len(titleDates) : titleDates[i].title = title].date
  ELSE <<>>

\* Map.set: a new key goes last, an old key keeps its place
mapSet(titleDates, title, date) ==
  IF \E i \in 1..Len(titleDates) : titleDates[i].title = title
  THEN [i \in 1..Len(titleDates) |->
          IF titleDates[i].title = title
          THEN [title |-> title, date |-> date]
          ELSE titleDates[i]]
  ELSE Append(titleDates, [title |-> title, date |-> date])

\* a walk that keeps the date of the file it met last
isMoreRecent_LastWins(date, existingDate) == TRUE

\* !existingDate || date > existingDate
isMoreRecent(date, existingDate) == existingDate = <<>> \/ StrLess(existingDate, date)

\* the body of extractTitles' loop for one file
extractTitle(titleDates, path) ==
  IF ~IsMarkdown(path) THEN titleDates
  ELSE LET match == matchDatePattern(Basename(path))
       IN  IF match = <<>> THEN titleDates
           ELSE IF isMoreRecent(match[1], mapGet(titleDates, match[2]))
                THEN mapSet(titleDates, match[2], match[1])
                ELSE titleDates

\* extractTitles over the files of a walk
RECURSIVE extractTitles(_, _)
extractTitles(titleDates, walk) ==
  IF walk = <<>> THEN titleDates
  ELSE extractTitles(extractTitle(titleDates, walk[1]), Tail(walk))

\* (a, b) => b[1].localeCompare(a[1]) is negative: a sorts before b
sortsBefore(a, b) == StrLess(b.date, a.date)

\* Array.prototype.sort is stable: an entry goes before the first one it sorts
\* before
insertEntry(sorted, e) ==
  IF \E i \in 1..Len(sorted) : sortsBefore(e, sorted[i])
  THEN LET at == CHOOSE i \in 1..Len(sorted) :
                   sortsBefore(e, sorted[i])
                   /\ \A j \in 1..(i - 1) : ~sortsBefore(e, sorted[j])
       IN  SubSeq(sorted, 1, at - 1) \o <<e>> \o SubSeq(sorted, at, Len(sorted))
  ELSE Append(sorted, e)

RECURSIVE sortEntries(_, _)
sortEntries(sorted, entries) ==
  IF entries = <<>> THEN sorted
  ELSE sortEntries(insertEntry(sorted, entries[1]), Tail(entries))

\* the Map getPastNoteTitles has built after the walk
titleDatesOf(walk) == extractTitles(<<>>, walk)

\* the array getPastNoteTitles returns after the walk
titlesOf(walk) ==
  LET sorted == sortEntries(<<>>, titleDatesOf(walk))
  IN  [i \in 1..Len(sorted) |-> sorted[i].title]

\* the walks of getPastNoteTitles: none when the base folder is not a folder
BaseWalks ==
  LET base == normalizePath(settings.baseFolder)
  IN  IF getAbstractFileByPath(base) = "TFolder" THEN Walks(base) ELSE {<<>>}

\* the arrays getPastNoteTitles may return in this state
getPastNoteTitles == {titlesOf(walk) : walk \in BaseWalks}

(***************************************************************************)
(* The onSubmit callback of createQuickNote.  Its steps are functions of   *)
(* the world w = [files, folders, tasks, notice, opened, created]; a step  *)
(* runs on until it awaits vault I/O (createFolder, read, create).         *)
(***************************************************************************)
World ==
  [files |-> files, folders |-> folders, tasks |-> tasks, notice |-> notice,
   opened |-> opened, created |-> created]

\* a month folder named after getMonth() as it is, 0-based
folderMonth_ZeroBased(now) == padStart(toString(now.month), 2)

\* line 97: (now.getMonth() + 1).toString().padStart(2, '0')
folderMonth(now) == padStart(toString(now.month + 1), 2)

\* lines 92-102: the clock is read once; the paths come from that reading
quickNote(title, now, baseFolder) ==
  LET dateStr    == formatDate(now)
      year       == toString(now.year)
      month      == folderMonth(now)
      folderPath == normalizePath(baseFolder \o <<"/">> \o year \o <<"/">> \o month)
      fileName   == dateStr \o <<" ">> \o title \o MdSuffix
  IN  [title |-> title, dateStr |-> dateStr, folderPath |-> folderPath,
       filePath |-> normalizePath(folderPath \o <<"/">> \o fileName),
       baseFolder |-> baseFolder, now |-> now,
       pc |-> "content", templatePath |-> <<>>, template |-> <<>>]

\* the catch block
failed(w, t) == [w EXCEPT !.notice = <<"Failed to create note", t.title>>]

\* lines 119-125: vault.create, openFile, Notice
createNote(w, t, content) ==
  IF createThrows(w, t.filePath) THEN failed(w, t)
  ELSE [w EXCEPT
          !.files = (t.filePath :> content) @@ w.files,
          !.opened = t.filePath,
          !.notice = <<"Created note", t.title>>,
          !.created = @ \cup {[path |-> t.filePath, title |-> t.title,
                               baseFolder |-> t.baseFolder, now |-> t.now,
                               templatePath |-> t.templatePath,
                               template |-> t.template, content |-> content]}]

\* the template getNoteContent reads: <<TRUE, content>> after vault.read,
\* <<FALSE, ''>> when no template is configured or found
readTemplate(w, templatePath) ==
  IF templatePath # <<>> /\ normalizePath(templatePath) \in DOMAIN w.files
  THEN <<TRUE, w.files[normalizePath(templatePath)]>>
  ELSE <<FALSE, <<>>>>

\* lines 116-125 up to the await of vault.read: with a template the callback
\* is suspended holding what was read, without one it goes on to create
runContent(w, t, templatePath) ==
  LET read == readTemplate(w, templatePath)
      t2   == [t EXCEPT !.pc = "create", !.templatePath = templatePath,
                        !.template = read[2]]
  IN  IF read[1]
      THEN [w EXCEPT !.tasks = Append(@, t2)]
      ELSE createNote(w, t2, addFrontmatter(read[2], t.title, t.dateStr))

\* lines 113-114, ensureFolderExists: createFolder only when nothing is at the
\* path; the callback is suspended while the folder is created
runEnsureFolder(w, t, templatePath) ==
  IF t.folderPath \in DOMAIN w.files \/ t.folderPath \in w.folders
  THEN runContent(w, t, templatePath)
  ELSE IF createFolderThrows(w, t.folderPath) THEN failed(w, t)
  ELSE [w EXCEPT !.folders = @ \cup Ancestors(t.folderPath) \cup {t.folderPath},
                 !.tasks = Append(@, t)]

\* a callback that does not look for an existing file
runCallback_NoExistingCheck(w, t, templatePath) == runEnsureFolder(w, t, templatePath)

\* lines 104-111: an existing file is opened and the callback returns
runCallback(w, t, templatePath) ==
  IF t.filePath \in DOMAIN w.files
  THEN [w EXCEPT !.opened = t.filePath,
                 !.notice = <<"Opened existing note", t.title>>]
  ELSE runEnsureFolder(w, t, templatePath)

RemoveAt(seq, i) == SubSeq(seq, 1, i - 1) \o SubSeq(seq, i + 1, Len(seq))

SetWorld(w) ==
  /\ files' = w.files
  /\ folders' = w.folders
  /\ tasks' = w.tasks
  /\ notice' = w.notice
  /\ opened' = w.opened
  /\ created' = w.created

(***************************************************************************)
(* Actions.                                                                *)
(***************************************************************************)
\* createQuickNote up to modal.open(): the ribbon icon or the command
CreateQuickNote ==
  /\ ~modalOpen
  /\ \E titles \in getPastNoteTitles : pastTitles' = titles
  /\ modalOpen' = TRUE
  /\ titleInput' = <<>>
  /\ suggestions' = <<>>
  /\ UNCHANGED <<settings, folders, files, clock, tasks, calls, notice, opened,
                 created>>

\* the user edits the title input; the suggester asks for suggestions
TypeInput(value) ==
  /\ modalOpen
  /\ titleInput' = value
  /\ suggestions' = getSuggestions(pastTitles, value)
  /\ UNCHANGED <<settings, folders, files, clock, modalOpen, pastTitles, tasks,
                 calls, notice, opened, created>>

\* close() and onClose(): the suggester is closed and the content element
\* emptied; the modal object, its input and its past titles are gone
CloseModal ==
  /\ modalOpen' = FALSE
  /\ pastTitles' = <<>>
  /\ titleInput' = <<>>
  /\ suggestions' = <<>>

\* the Cancel button
CancelModal ==
  /\ modalOpen
  /\ CloseModal
  /\ UNCHANGED <<settings, folders, files, clock, tasks, calls, notice, opened,
                 created>>

\* TitleInputModal.submit with a title: onSubmit(title), then close()
SubmitTitle(title) ==
  /\ Len(calls) < MaxSubmits
  /\ calls' = Append(calls, title)
  /\ SetWorld(runCallback(World, quickNote(title, clock, settings.baseFolder),
                          settings.templatePath))
  /\ CloseModal
  /\ UNCHANGED <<settings, clock>>

\* TitleInputModal.submit without one: a Notice, and nothing else
SubmitEmpty ==
  /\ notice' = <<"Please enter a note title">>
  /\ UNCHANGED <<settings, folders, files, clock, modalOpen, pastTitles,
                 titleInput, suggestions, tasks, calls, opened, created>>

\* a submit that does not trim the input
Submit_Untrimmed ==
  /\ modalOpen
  /\ IF titleInput # <<>> THEN SubmitTitle(titleInput) ELSE SubmitEmpty

\* TitleInputModal.submit: the Create button or Enter
Submit ==
  /\ modalOpen
  /\ IF trim(titleInput) # <<>> THEN SubmitTitle(trim(titleInput)) ELSE SubmitEmpty

\* a callback resumes after createFolder
TaskContent(i) ==
  /\ tasks[i].pc = "content"
  /\ SetWorld(runContent([World EXCEPT !.tasks = RemoveAt(@, i)], tasks[i],
                         settings.templatePath))
  /\ UNCHANGED <<settings, clock, modalOpen, pastTitles, titleInput, suggestions,
                 calls>>

\* a callback resumes after vault.read
TaskCreate(i) ==
  /\ tasks[i].pc = "create"
  /\ SetWorld(createNote([World EXCEPT !.tasks = RemoveAt(@, i)], tasks[i],
                         addFrontmatter(tasks[i].template, tasks[i].title,
                                        tasks[i].dateStr)))
  /\ UNCHANGED <<settings, clock, modalOpen, pastTitles, titleInput, suggestions,
                 calls>>

\* the base folder setting's onChange
SetBaseFolder(value) ==
  /\ settings' = [settings EXCEPT !.baseFolder = IF value # <<>> THEN value ELSE Notes]
  /\ UNCHANGED <<folders, files, clock, modalOpen, pastTitles, titleInput,
                 suggestions, tasks, calls, notice, opened, created>>

\* the template file setting's onChange
SetTemplatePath(value) ==
  /\ settings' = [settings EXCEPT !.templatePath = value]
  /\ UNCHANGED <<folders, files, clock, modalOpen, pastTitles, titleInput,
                 suggestions, tasks, calls, notice, opened, created>>

\* time passes
Tick ==
  /\ \E i \in 1..(Len(Readings) - 1) : clock = Readings[i] /\ clock' = Readings[i + 1]
  /\ UNCHANGED <<settings, folders, files, modalOpen, pastTitles, titleInput,
                 suggestions, tasks, calls, notice, opened, created>>

(***************************************************************************)
(* The plugin in a vault that holds the template files.                    *)
(***************************************************************************)
Init ==
  /\ settings = DEFAULT_SETTINGS
  /\ folders = {}
  /\ files = TemplateFiles
  /\ clock = Readings[1]
  /\ modalOpen = FALSE
  /\ pastTitles = <<>>
  /\ titleInput = <<>>
  /\ suggestions = <<>>
  /\ tasks = <<>>
  /\ calls = <<>>
  /\ notice = <<>>
  /\ opened = <<>>
  /\ created = {}

Next ==
  \/ CreateQuickNote
  \/ \E value \in TitleInputs : TypeInput(value)
  \/ CancelModal
  \/ Submit
  \/ \E i \in 1..Len(tasks) : TaskContent(i)
  \/ \E i \in 1..Len(tasks) : TaskCreate(i)
  \/ \E value \in BaseInputs : SetBaseFolder(value)
  \/ \E value \in TemplateInputs : SetTemplatePath(value)
  \/ Tick

Spec == Init /\ [][Next]_vars

(***************************************************************************)
(* The plugin with every template: what a created note holds.              *)
(***************************************************************************)
NextContent ==
  \/ CreateQuickNote
  \/ \E value \in TitleInputs : TypeInput(value)
  \/ CancelModal
  \/ Submit
  \/ \E i \in 1..Len(tasks) : TaskContent(i)
  \/ \E i \in 1..Len(tasks) : TaskCreate(i)
  \/ \E value \in AllTemplateInputs : SetTemplatePath(value)

SpecContent == Init /\ [][NextContent]_vars

(***************************************************************************)
(* The title modal over the vaults a user may hold: past titles and        *)
(* suggestions.                                                            *)
(***************************************************************************)
InitTitles ==
  /\ \E base \in BaseFolders : settings = [DEFAULT_SETTINGS EXCEPT !.baseFolder = base]
  /\ \E notes \in SUBSET UserNotes :
       /\ files = [p \in notes |-> <<>>] @@ TemplateFiles
       /\ folders = UNION {Ancestors(p) : p \in notes}
  /\ clock = Readings[1]
  /\ modalOpen = FALSE
  /\ pastTitles = <<>>
  /\ titleInput = <<>>
  /\ suggestions = <<>>
  /\ tasks = <<>>
  /\ calls = <<>>
  /\ notice = <<>>
  /\ opened = <<>>
  /\ created = {}

NextTitles ==
  \/ CreateQuickNote
  \/ \E value \in QueryInputs : TypeInput(value)
  \/ CancelModal

SpecTitles == InitTitles /\ [][NextTitles]_vars

(***************************************************************************)
(* What the claims speak of, stated apart from the code's own computation. *)
(***************************************************************************)
DigitValue(c) == (CHOOSE i \in 1..Len(Digits) : Digits[i] = c) - 1

\* YYYY-MM-DD
DateShaped(d) ==
  /\ Len(d) = 10
  /\ d[5] = "-" /\ d[8] = "-"
  /\ \A i \in {1, 2, 3, 4, 6, 7, 9, 10} : d[i] \in Range(Digits)

\* the day a YYYY-MM-DD string names, as a number that grows with time
DateValue(d) ==
  (DigitValue(d[1]) * 1000 + DigitValue(d[2]) * 100 + DigitValue(d[3]) * 10
     + DigitValue(d[4])) * 10000
  + (DigitValue(d[6]) * 10 + DigitValue(d[7])) * 100
  + DigitValue(d[9]) * 10 + DigitValue(d[10])

\* basename = YYYY-MM-DD, then j characters of whitespace, then t
SplitsAt(basename, j, t) ==
  /\ j >= 1
  /\ Len(basename) >= 11 + j
  /\ DateShaped(SubSeq(basename, 1, 10))
  /\ AllSpace(SubSeq(basename, 11, 10 + j))
  /\ t = SubSeq(basename, 11 + j, Len(basename))

\* basename is YYYY-MM-DD, then whitespace, then t (non-empty)
IsDateSpaceTitle(basename, t) == \E j \in 1..Len(basename) : SplitsAt(basename, j, t)

\* the same, the whitespace being the longest run that leaves t non-empty,
\* and t holding no line break
IsNoteTitle(basename, t) ==
  \E j \in 1..Len(basename) :
    /\ SplitsAt(basename, j, t)
    /\ \A i \in 1..Len(t) : ~IsLineTerminator(t[i])
    /\ \A k \in (j + 1)..Len(basename) :
         ~SplitsAt(basename, k, SubSeq(basename, 11 + k, Len(basename)))

\* the md files anywhere under the configured base folder
PastNotes ==
  {f \in DOMAIN files :
     /\ Extension(f) = <<"m", "d">>
     /\ startsWith(f, normalizePath(settings.baseFolder) \o <<"/">>)}

Suffixes(s) == {SubSeq(s, i, Len(s)) : i \in 1..Len(s)}

NoteTitles ==
  {t \in UNION {Suffixes(Basename(f)) : f \in PastNotes} :
     \E f \in PastNotes : IsNoteTitle(Basename(f), t)}

DateSpaceTitles ==
  {t \in UNION {Suffixes(Basename(f)) : f \in PastNotes} :
     \E f \in PastNotes : IsDateSpaceTitle(Basename(f), t)}

NoDuplicates(seq) == \A i, j \in 1..Len(seq) : seq[i] = seq[j] => i = j

\* the most recent day among the notes carrying the title
MostRecentDay(t) ==
  LET days == {DateValue(SubSeq(Basename(f), 1, 10)) :
                 f \in {g \in PastNotes : IsNoteTitle(Basename(g), t)}}
  IN  CHOOSE d \in days : \A e \in days : e <= d

TwoDigits(n) == <<Digits[((n \div 10) % 10) + 1], Digits[(n % 10) + 1]>>

FourDigits(n) == TwoDigits(n \div 100) \o TwoDigits(n % 100)

\* <baseFolder>/<YYYY>/<MM>/<YYYY-MM-DD> <title>.md for a clock reading
QuickNotePath(baseFolder, now, title) ==
  LET yyyy == FourDigits(now.year)
      mm   == TwoDigits(now.month + 1)
      dd   == TwoDigits(now.date)
  IN  baseFolder \o <<"/">> \o yyyy \o <<"/">> \o mm \o <<"/">>
        \o yyyy \o <<"-">> \o mm \o <<"-">> \o dd \o <<" ">> \o title \o MdSuffix

\* the lines of a text
RECURSIVE Lines(_)
Lines(text) ==
  IF \E i \in 1..Len(text) : text[i] = "\n"
  THEN LET at == CHOOSE i \in 1..Len(text) :
                   text[i] = "\n" /\ \A j \in 1..(i - 1) : text[j] # "\n"
       IN  <<SubSeq(text, 1, at - 1)>> \o Lines(SubSeq(text, at + 1, Len(text)))
  ELSE <<text>>

\* the line that closes the block a first line '---' opens, 0 when none does
ClosingFence(lines) ==
  IF Len(lines) >= 2 /\ lines[1] = Fence /\ \E k \in 2..Len(lines) : lines[k] = Fence
  THEN CHOOSE k \in 2..Len(lines) :
         lines[k] = Fence /\ \A j \in 2..(k - 1) : lines[j] # Fence
  ELSE 0

\* the lines of the leading frontmatter block, between its '---' lines
BlockLines(text) == SubSeq(Lines(text), 2, ClosingFence(Lines(text)) - 1)

HasLine(lines, key) == \E i \in 1..Len(lines) : startsWith(lines[i], key)

\* the text begins with a frontmatter block holding a title: and a date: line
HasTitleDateBlock(text) ==
  /\ ClosingFence(Lines(text)) # 0
  /\ HasLine(BlockLines(text), TitleKey)
  /\ HasLine(BlockLines(text), DateKey)

\* the text starts with a '---' line, lines, and a '---' line
StartsWithBlock(text) == ClosingFence(Lines(text)) >= 3

\* result is template with, in front of its block's lines, a title: line when
\* the block has none and a date: line when it has none, and nothing else changed
IsMergeOf(result, template) ==
  LET old      == Lines(template)
      new      == Lines(result)
      addTitle == ~HasLine(BlockLines(template), TitleKey)
      addDate  == ~HasLine(BlockLines(template), DateKey)
      n        == (IF addTitle THEN 1 ELSE 0) + (IF addDate THEN 1 ELSE 0)
      added    == SubSeq(new, 2, 1 + n)
  IN  /\ Len(new) = Len(old) + n
      /\ new[1] = Fence
      /\ HasLine(added, TitleKey) <=> addTitle
      /\ HasLine(added, DateKey) <=> addDate
      /\ SubSeq(new, 2 + n, Len(new)) = SubSeq(old, 2, Len(old))

\* the past titles the query selects, by their places in the list
MatchingPlaces(titles, query) ==
  {i \in 1..Len(titles) : includes(toLowerCase(titles[i]), toLowerCase(query))}

\* seq lists the entries of titles at the places of P, in the order of titles
ListsPlaces(seq, titles, P) ==
  /\ Len(seq) = Cardinality(P)
  /\ \A i \in P : seq[Cardinality({j \in P : j < i}) + 1] = titles[i]

(***************************************************************************)
(* Claims.                                                                 *)
(***************************************************************************)
\* C1 (as amended): the past titles hold no title twice, and hold t exactly
\* when some md file under the base folder has a basename made of YYYY-MM-DD,
\* the longest run of whitespace that leaves a rest, and t as that rest, t
\* holding no line break; other files contribute nothing, and without a base
\* folder the list is empty.
C1_PastTitlesAreTheNoteTitles ==
  modalOpen =>
    /\ NoDuplicates(pastTitles)
    /\ Range(pastTitles) = NoteTitles
    /\ getAbstractFileByPath(normalizePath(settings.baseFolder)) # "TFolder"
         => pastTitles = <<>>

\* C1 (as stated): t is a past title exactly when some md file under the base
\* folder has a basename YYYY-MM-DD, then whitespace, then t (non-empty).
C1_AsStated ==
  modalOpen =>
    /\ NoDuplicates(pastTitles)
    /\ Range(pastTitles) = DateSpaceTitles

\* C1 witness: past titles taken from a vault that holds a note with two
\* spaces after its date, a file that is no md file and an md file without date
C1_Witness ==
  /\ modalOpen
  /\ Len(pastTitles) >= 3
  /\ <<"b">> \in Range(pastTitles)
  /\ \E f \in DOMAIN files : startsWith(f, Notes) /\ Extension(f) = <<"t", "x", "t">>
  /\ \E f \in PastNotes : \A t \in Suffixes(Basename(f)) : ~IsDateSpaceTitle(Basename(f), t)

\* C2: where getPastNoteTitles may be called, whatever the order of its walk,
\* the date it keeps for a title is the most recent one among the files
\* carrying the title; and the titles it returned are listed by that date,
\* most recent first.
C2_MostRecentDateFirst ==
  /\ ~modalOpen =>
       \A walk \in BaseWalks :
       \A entry \in Range(titleDatesOf(walk)) :
         /\ DateShaped(entry.date)
         /\ DateValue(entry.date) = MostRecentDay(entry.title)
  /\ modalOpen =>
       \A i, j \in 1..Len(pastTitles) :
         i < j => MostRecentDay(pastTitles[i]) >= MostRecentDay(pastTitles[j])

\* C2 witness: a title carried by two notes of different days, listed after a
\* title whose only note is the more recent
C2_Witness ==
  /\ modalOpen
  /\ Cardinality({f \in PastNotes : IsNoteTitle(Basename(f), <<"a">>)}) = 2
  /\ \E i, j \in 1..Len(pastTitles) :
       /\ i < j
       /\ pastTitles[j] = <<"A", "b">>
       /\ MostRecentDay(pastTitles[i]) > MostRecentDay(pastTitles[j])
       /\ pastTitles[i] = <<"a">>

\* C3 (as amended): every file the plugin created is at the normalised form of
\* <baseFolder>/<YYYY>/<MM>/<YYYY-MM-DD> <title>.md, for the base folder
\* setting and the clock reading of its submission and the trimmed title the
\* callback got; the plugin created no other file.
C3_NotesAtNormalisedPath ==
  /\ \A c \in created :
       /\ c.path = normalizePath(QuickNotePath(c.baseFolder, c.now, c.title))
       /\ c.title \in Range(calls)
       /\ c.title = trim(c.title)
       /\ c.path \in DOMAIN files
  /\ (DOMAIN files) \ (DOMAIN TemplateFiles) = {c.path : c \in created}

\* C3 (as stated): every file the plugin created is at the path
\* <baseFolder>/<YYYY>/<MM>/<YYYY-MM-DD> <title>.md.
C3_AsStated ==
  /\ \A c \in created : c.path = QuickNotePath(c.baseFolder, c.now, c.title)
  /\ (DOMAIN files) \ (DOMAIN TemplateFiles) = {c.path : c \in created}

\* C3 witness: two notes, created under different base folder settings and
\* clock readings, one of them under a setting that ends with a separator
C3_Witness ==
  \E c1, c2 \in created :
    /\ c1.baseFolder = Notes
    /\ c2.baseFolder = <<"M", "/">>
    /\ c1.now # c2.now
    /\ c1.now.month # c2.now.month

\* C4: every created note begins with a frontmatter block, delimited by '---'
\* lines, that holds a title: line and a date: line.
C4_NotesHaveTitleDateBlock == \A c \in created : HasTitleDateBlock(files[c.path])

\* C5: a template that starts with a frontmatter block is merged: the missing
\* title: and date: lines are added to the block, its lines and the body stay.
C5_BlockIsMerged ==
  \A c \in created : StartsWithBlock(c.template) => IsMergeOf(files[c.path], c.template)

\* C6: without a template setting the created note is blank.
C6_BlankWithoutTemplate == \A c \in created : c.templatePath = <<>> => files[c.path] = <<>>

\* C7: a submission for which today's note exists opens it, says so, creates
\* no file or folder, suspends no callback on a template read, and no step
\* changes or removes a file of the vault.
C7_ExistingNoteIsOpened ==
  [][ /\ ( /\ calls' # calls
           /\ normalizePath(QuickNotePath(settings.baseFolder, clock, trim(titleInput)))
                \in DOMAIN files )
         => /\ opened' = normalizePath(QuickNotePath(settings.baseFolder, clock,
                                                      trim(titleInput)))
            /\ notice' = <<"Opened existing note", trim(titleInput)>>
            /\ files' = files
            /\ folders' = folders
            /\ tasks' = tasks
            /\ created' = created
      /\ \A p \in DOMAIN files : p \in DOMAIN files' /\ files'[p] = files[p] ]_vars

\* C7 witness: a note the plugin created has been opened as the existing note
C7_Witness ==
  /\ notice = <<"Opened existing note", <<"a">>>>
  /\ opened \in {c.path : c \in created}
  /\ Len(calls) = 2

\* C8: no suggestion for an empty or whitespace-only query; for another query
\* exactly the past titles that contain it, both lower-cased, in their order.
C8_SuggestionsAreTheMatches ==
  modalOpen =>
    IF AllSpace(titleInput)
    THEN suggestions = <<>>
    ELSE ListsPlaces(suggestions, pastTitles, MatchingPlaces(pastTitles, titleInput))

\* C8 witness: an upper-case query that selects two of at least three titles
C8_Witness ==
  /\ modalOpen
  /\ titleInput = <<"A">>
  /\ Len(pastTitles) >= 3
  /\ Len(suggestions) = 2
  /\ suggestions[1] # suggestions[2]

\* C9: a submit of an empty or whitespace-only input invokes no callback,
\* leaves the modal open and the vault as it is, and shows a notice; any other
\* submit invokes the callback once, with the trimmed input, and closes the
\* modal; nothing else invokes the callback.
C9_SubmitInvokesCallbackOnce ==
  [][ /\ Submit =>
           IF trim(titleInput) = <<>>
           THEN /\ calls' = calls
                /\ modalOpen'
                /\ files' = files
                /\ folders' = folders
                /\ tasks' = tasks
                /\ created' = created
                /\ notice' = <<"Please enter a note title">>
           ELSE /\ calls' = Append(calls, trim(titleInput))
                /\ ~modalOpen'
      /\ calls' # calls => Submit ]_vars

\* C9 witness: after a submit that invoked the callback, a whitespace-only
\* input was submitted: the notice is shown and the modal is still open
C9_Witness ==
  /\ modalOpen
  /\ titleInput = <<" ">>
  /\ notice = <<"Please enter a note title">>
  /\ calls = << <<"a">> >>

====
